---------------------------- MODULE Spec2Model ----------------------------
(***************************************************************************)
(* IMGtoKMZ: one run of create.py (the "posix" variant) or create-win.py   *)
(* (the "win" variant): metadata extraction, per-record classification,    *)
(* ordering and naming, staging, KML generation, KMZ archive, CSV report,  *)
(* and cleanup of the temporary directories.                               *)
(*                                                                         *)
(* Conventions.  An optional value (Python None or a value) is a sequence  *)
(* of length 0 or 1.  A path is a record [dir, stem, ext]: the directory   *)
(* components, and the file name split as os.path.splitext splits it.      *)
(* A datetime is a record [t, aware]: ticks since the epoch, and whether   *)
(* it carries a UTC offset.  A file's content is named by the path of the  *)
(* input file it comes from.                                               *)
(***************************************************************************)
EXTENDS Integers, Sequences, FiniteSets, TLC

\* ------------------------------------------------------------- bounds
\* Most records the metadata reader returns in one run.
MaxRecs == 2
\* Largest day number and largest second-of-day of a timestamp string.
MaxDay == 2
MaxSec == 2

TicksPerDay == MaxSec + 1

\* ------------------------------------------------------ optional values
None == <<>>
Some(x) == <<x>>
IsNone(o) == o = <<>>
Val(o) == o[1]

\* --------------------------------------------------------------- paths
Path(d, s, e) == [dir |-> d, stem |-> s, ext |-> e]

\* os.path.isabs
isabs(p) == Len(p.dir) > 0 /\ p.dir[1] = "/"

\* os.path.join(d, p), d a directory
join(d, p) == IF isabs(p) THEN p ELSE [p EXCEPT !.dir = d \o p.dir]

\* os.path.basename
basename(p) == [p EXCEPT !.dir = <<>>]

\* str.lower, on the extensions the model uses
lower(e) == IF e = ".HEIC" THEN ".heic" ELSE e

\* os.path.splitext(p.lower())[1]
splitext_lower(p) == lower(p.ext)

allowed_exts == {".jpg", ".jpeg", ".png", ".heic", ".heif"}

\* tempfile.mkdtemp(prefix="heicfix_") and tempfile.mkdtemp(prefix="kmz_")
ConvertDirPath == <<"/", "tmp", "heicfix_">>
FilesPrefix == <<"files">>

\* ----------------------------------------------------------- datetimes
DT(t, aware) == [t |-> t, aware |-> aware]

\* datetime.utcfromtimestamp(0)
Epoch == DT(0, FALSE)

\* A timestamp string: its layout, and the day and second it spells.
\*   "exif"  YYYY:MM:DD HH:MM:SS        "isoT"  YYYY-MM-DDTHH:MM:SS
\*   "date"  YYYY:MM:DD                 "iso"   YYYY-MM-DD HH:MM:SS
\*   "isotz" YYYY-MM-DDTHH:MM:SS+00:00  "junk"  anything else
\*   "empty" the empty string
Str(f, d, s) == [fmt |-> f, d |-> d, s |-> s]
DateStrings ==
    {Str(f, d, s) : f \in {"exif", "isoT", "iso", "isotz"}, d \in 0..MaxDay, s \in 0..MaxSec}
    \cup {Str("date", d, 0) : d \in 0..MaxDay}
    \cup {Str("junk", 0, 0), Str("empty", 0, 0)}

\* datetime.strptime(s, fmt): the value, or None where it raises ValueError
strptime(s, fmt) ==
    IF s.fmt # fmt THEN None
    ELSE Some(DT(s.d * TicksPerDay + (IF fmt = "date" THEN 0 ELSE s.s), FALSE))

\* datetime.fromisoformat(s): the value, or None where it raises ValueError
fromisoformat(s) ==
    CASE s.fmt \in {"isoT", "iso"} -> Some(DT(s.d * TicksPerDay + s.s, FALSE))
      [] s.fmt = "isotz" -> Some(DT(s.d * TicksPerDay + s.s, TRUE))
      [] OTHER -> None

\* os.path.getmtime(p) of a file that exists, as utcfromtimestamp gives it
getmtime(p) == DT(TicksPerDay, FALSE)

\* First of the strptime formats that accepts s, in the order the loop tries them.
RECURSIVE try_formats(_, _)
try_formats(s, fmts) ==
    IF fmts = <<>> THEN None
    ELSE IF ~IsNone(strptime(s, Head(fmts))) THEN strptime(s, Head(fmts))
    ELSE try_formats(s, Tail(fmts))

\* parse_dt with the fallback to the modification time also taken when the
\* string matches no format.
parse_dt_fallback_always(dt_str, path, files) ==
    LET parsed == IF IsNone(dt_str) \/ Val(dt_str).fmt = "empty" THEN None
                  ELSE IF ~IsNone(try_formats(Val(dt_str), <<"exif", "isoT", "date">>))
                       THEN try_formats(Val(dt_str), <<"exif", "isoT", "date">>)
                       ELSE fromisoformat(Val(dt_str))
    IN  IF ~IsNone(parsed) THEN parsed
        ELSE IF path \in files THEN Some(getmtime(path)) ELSE None

\* parse_dt(dt_str, path); files is the set of paths that exist
parse_dt(dt_str, path, files) ==
    IF IsNone(dt_str) \/ Val(dt_str).fmt = "empty"
    THEN IF path \in files THEN Some(getmtime(path)) ELSE None
    ELSE IF ~IsNone(try_formats(Val(dt_str), <<"exif", "isoT", "date">>))
         THEN try_formats(Val(dt_str), <<"exif", "isoT", "date">>)
         ELSE fromisoformat(Val(dt_str))


\* ------------------------------------------------- the metadata reader
\* A JSON value of a numeric tag: a number, or a string float() rejects.
Num(v) == [num |-> TRUE, v |-> v]
BadNum == [num |-> FALSE, v |-> 0]

\* The files of the scanned directory, relative to it.
FileA == Path(<<>>, "a", ".jpg")
FileSubA == Path(<<"sub">>, "a", ".jpg")
FileH == Path(<<>>, "a", ".HEIC")
FileN == Path(<<>>, "n", ".txt")

Rec(rel, lat, lon, alt, dto) ==
    [rel |-> rel, lat |-> lat, lon |-> lon, alt |-> alt, dto |-> dto]

Lat == Num(10)
Lon == Num(20)
T1 == Str("exif", 1, 0)
T2 == Str("exif", 2, 0)

\* The records exiftool may print for one file: a record with no name at
\* all, a text file, a HEIC image with or without a position, and JPEG
\* images (one of them in a subdirectory) over the combinations of position,
\* altitude and capture time that the pipeline tells apart.
RawRecords ==
    {Rec(None, None, None, None, None)}
    \cup {Rec(Some(FileN), None, None, None, None)}
    \cup {Rec(Some(FileH), g, IF g = None THEN None ELSE Some(Lon), None, Some(T1)) :
             g \in {None, Some(Lat)}}
    \cup {Rec(Some(f), None, None, None, None) : f \in {FileA, FileSubA}}
    \cup {Rec(Some(f), Some(Lat), Some(Lon), a, Some(T1)) :
             f \in {FileA, FileSubA}, a \in {None, Some(Num(0)), Some(Num(5))}}
    \cup {Rec(Some(f), Some(Lat), Some(Lon), None, d) :
             f \in {FileA, FileSubA}, d \in {None, Some(T2), Some(Str("junk", 0, 0))}}
    \cup {Rec(Some(FileA), Some(BadNum), Some(Lon), None, Some(T1)),
          Rec(Some(FileA), Some(Lat), Some(Lon), Some(BadNum), Some(T1)),
          Rec(Some(FileA), Some(Lat), Some(Lon), None, Some(Str("isotz", 1, 0)))}

\* A listing names each file once; nameless records may repeat.
Listings ==
    {l \in UNION {[1..n -> RawRecords] : n \in 0..MaxRecs} :
        \A j, k \in DOMAIN l :
            (j # k /\ ~IsNone(l[j].rel)) => l[j].rel # l[k].rel}

\* json.loads(proc.stdout): exiftool names each file by the directory it was
\* given followed by the file's path below it.
json_loads(listing, dir) ==
    [j \in DOMAIN listing |->
        [SourceFile |-> IF IsNone(listing[j].rel) THEN None
                        ELSE Some(join(dir, Val(listing[j].rel))),
         FileName |-> IF IsNone(listing[j].rel) THEN None
                      ELSE Some(basename(Val(listing[j].rel))),
         GPSLatitude |-> listing[j].lat,
         GPSLongitude |-> listing[j].lon,
         GPSAltitude |-> listing[j].alt,
         DateTimeOriginal |-> listing[j].dto]]

\* The directory's files, each holding its own content.
Directory(listing, dir) ==
    LET ps == {join(dir, Val(listing[j].rel)) : j \in {k \in DOMAIN listing : ~IsNone(listing[k].rel)}}
    IN  [p \in ps |-> p]

\* ---------------------------------------------------------------- state
VARIABLES
    variant,      \* "posix" (create.py) or "win" (create-win.py)
    image_dir,    \* args[1], the directory's components
    include_tour, \* "--tour" in args
    stdout,       \* what exiftool will print for image_dir
    fs,           \* input and converted files: path -> content
    pc,           \* position in main
    raw_list,     \* json.loads(proc.stdout) (data in create.py)
    i,            \* index of the next element of the loop at pc
    items,        \* geotagged records
    nongeo,       \* records without position (skipped in create.py)
    nonfiles,     \* non-images and failed conversions (create-win.py)
    tmp,          \* "none", "exists", "removed": the kmz_ directory
    convert_dir,  \* "none", "exists", "removed": the heicfix_ directory
    files_dir,    \* tmp/files: file name -> content
    side,         \* bucket folders beside the output: folder -> file names
    kml,          \* doc.kml: [body, tour], or None
    kmz,          \* the archive at out_kmz: [state, doc, files]
    rows,         \* the rows written to the CSV report, or None
    raised,       \* the exception that left main: "none", or what raised it
    exit          \* "running", "ok", "error"

vars == <<variant, image_dir, include_tour, stdout, fs, pc, raw_list, i, items,
          nongeo, nonfiles, tmp, convert_dir, files_dir, side, kml, kmz, rows, raised,
          exit>>

NoArchive == [state |-> "absent", doc |-> FALSE, files |-> <<>>]

Init ==
    /\ variant \in {"posix", "win"}
    /\ image_dir \in {<<"/", "photos">>, <<"photos">>}
    /\ include_tour \in (IF variant = "posix" THEN BOOLEAN ELSE {FALSE})
    /\ stdout \in Listings
    /\ fs = Directory(stdout, image_dir)
    /\ pc = "start"
    /\ raw_list = <<>>
    /\ i = 1
    /\ items = <<>>
    /\ nongeo = <<>>
    /\ nonfiles = <<>>
    /\ tmp = "none"
    /\ convert_dir = "none"
    /\ files_dir = <<>>
    /\ side = [d \in {"files_geo", "files_nongeo", "files_nonimg", "no_gps"} |-> {}]
    /\ kml = None
    /\ kmz = NoArchive
    /\ rows = None
    /\ raised = "none"
    /\ exit = "running"

exists(p) == p \in DOMAIN fs

\* ------------------------------------------------------- classification
\* float(x): None where it raises
float(x) == IF x.num THEN Some(x.v) ELSE None

\* src = item.get("SourceFile") or item.get("FileName")
src_of(item) == IF ~IsNone(item.SourceFile) THEN item.SourceFile ELSE item.FileName

\* The candidate path of a record: src as given or joined with the directory,
\* and when that does not exist, the directory joined with src's base name.
candidate_of(src) ==
    LET first == IF isabs(src) THEN src ELSE join(image_dir, src)
    IN  IF exists(first) THEN first ELSE join(image_dir, basename(src))

Item(idx, src, file, lon, lat, alt, dt) ==
    [idx |-> idx, srcpath |-> src, file |-> file, lon |-> lon, lat |-> lat,
     alt |-> alt, dt |-> dt, kname |-> 0, kimg |-> None]

\* One pass of create.py's loop over data.  to is the list the record joins:
\* "none" (continue without a list), "items", "nongeo" (skipped), or "raise".
classify_posix(item, idx) ==
    LET src == src_of(item)
        candidate == candidate_of(Val(src))
        entry == [idx |-> idx,
                  file |-> IF exists(candidate) THEN candidate ELSE Val(src),
                  dt |-> None]
        lat == float(Val(item.GPSLatitude))
        lon == float(Val(item.GPSLongitude))
    IN  IF IsNone(src) THEN [to |-> "none"]
        ELSE IF IsNone(item.GPSLatitude) \/ IsNone(item.GPSLongitude)
             THEN [to |-> "nongeo", rec |-> entry]
        ELSE IF IsNone(lat) \/ IsNone(lon) THEN [to |-> "nongeo", rec |-> entry]
        ELSE IF ~IsNone(item.GPSAltitude) /\ IsNone(float(Val(item.GPSAltitude)))
             THEN [to |-> "raise"]
        ELSE [to |-> "items",
              rec |-> Item(idx, Val(src), candidate, Val(lon), Val(lat),
                           IF IsNone(item.GPSAltitude) THEN None
                           ELSE float(Val(item.GPSAltitude)),
                           parse_dt(item.DateTimeOriginal, candidate, DOMAIN fs))]

\* convert_heic_to_jpeg's output path: the work directory, the source's base
\* name with its extension replaced by .jpg
out_jpg_of(src) == Path(ConvertDirPath, src.stem, ".jpg")

\* normalize_image(src, convert_dir).  magick and ffmpeg tell whether each
\* converter, run on a source that exists, exits with 0; a converter run on a
\* missing source fails.  None where the conversion raises.
normalize_image(src, magick, ffmpeg) ==
    IF splitext_lower(src) \in {".heic", ".heif"}
    THEN IF exists(src) /\ (magick \/ ffmpeg) THEN Some(out_jpg_of(src)) ELSE None
    ELSE Some(src)

\* One pass of create-win.py's loop over raw_list; "nonfiles" is its third list.
classify_win(item, idx, magick, ffmpeg) ==
    LET src == src_of(item)
        candidate == candidate_of(Val(src))
        norm == normalize_image(candidate, magick, ffmpeg)
        converted == IF Val(norm) # candidate THEN {Val(norm)} ELSE {}
        dt == parse_dt(item.DateTimeOriginal, Val(norm), DOMAIN fs \cup converted)
        entry == [idx |-> idx, file |-> Val(norm), dt |-> dt]
        lat == float(Val(item.GPSLatitude))
        lon == float(Val(item.GPSLongitude))
    IN  IF IsNone(src) THEN [to |-> "none"]
        ELSE IF splitext_lower(candidate) \notin allowed_exts
             THEN [to |-> "nonfiles", rec |-> [idx |-> idx, file |-> candidate]]
        ELSE IF IsNone(norm)
             THEN [to |-> "nonfiles", rec |-> [idx |-> idx, file |-> candidate]]
        ELSE IF IsNone(item.GPSLatitude) \/ IsNone(item.GPSLongitude)
             THEN [to |-> "nongeo", rec |-> entry]
        ELSE IF IsNone(lat) \/ IsNone(lon) THEN [to |-> "nongeo", rec |-> entry]
        ELSE IF ~IsNone(item.GPSAltitude) /\ IsNone(float(Val(item.GPSAltitude)))
             THEN [to |-> "raise"]
        ELSE [to |-> "items",
              rec |-> Item(idx, Val(src), Val(norm), Val(lon), Val(lat),
                           IF IsNone(item.GPSAltitude) THEN None
                           ELSE float(Val(item.GPSAltitude)), dt)]

\* The files after normalize_image: a conversion writes one new file, holding
\* the converted content of its source.
fs_after(item, magick, ffmpeg) ==
    LET src == src_of(item)
        candidate == candidate_of(Val(src))
        norm == normalize_image(candidate, magick, ffmpeg)
    IN  IF IsNone(src) \/ splitext_lower(candidate) \notin allowed_exts
           \/ IsNone(norm) \/ Val(norm) = candidate
        THEN fs
        ELSE [p \in DOMAIN fs \cup {Val(norm)} |->
                 IF p = Val(norm) THEN fs[candidate] ELSE fs[p]]

\* ------------------------------------------------------------- actions
\* main up to the metadata reader: create-win.py makes both temporary
\* directories first, create.py makes none yet.
Begin ==
    /\ pc = "start"
    /\ pc' = "extract"
    /\ convert_dir' = IF variant = "win" THEN "exists" ELSE convert_dir
    /\ tmp' = IF variant = "win" THEN "exists" ELSE tmp
    /\ UNCHANGED <<variant, image_dir, include_tour, stdout, fs, raw_list, i, items,
                   nongeo, nonfiles, files_dir, side, kml, kmz, rows, exit, raised>>

\* An exception leaves main: create-win.py is inside its try block from the
\* reader on, create.py from the creation of tmp on.
raise_from(at) ==
    IF variant = "win" \/ at \notin {"extract", "classify", "empty", "sort"}
    THEN "finally" ELSE "done"

\* run_exiftool_json: exiftool exits with 0 and its output is loaded, or it
\* exits with another code and RuntimeError is raised.
Extract ==
    /\ pc = "extract"
    /\ \E returncode \in {0, 1} :
        IF returncode # 0
        THEN /\ exit' = "error"
             /\ raised' = "exiftool"
             /\ pc' = raise_from("extract")
             /\ UNCHANGED raw_list
        ELSE /\ raw_list' = json_loads(stdout, image_dir)
             /\ pc' = "classify"
             /\ UNCHANGED <<exit, raised>>
    /\ i' = 1
    /\ UNCHANGED <<variant, image_dir, include_tour, stdout, fs, items, nongeo,
                   nonfiles, tmp, convert_dir, files_dir, side, kml, kmz, rows>>

\* The body of the loop over the records, for record i.
Classify ==
    /\ pc = "classify"
    /\ i <= Len(raw_list)
    /\ \E magick, ffmpeg \in BOOLEAN :
        LET r == IF variant = "posix" THEN classify_posix(raw_list[i], i)
                 ELSE classify_win(raw_list[i], i, magick, ffmpeg)
        IN  /\ items' = IF r.to = "items" THEN Append(items, r.rec) ELSE items
            /\ nongeo' = IF r.to = "nongeo" THEN Append(nongeo, r.rec) ELSE nongeo
            /\ nonfiles' = IF r.to = "nonfiles" THEN Append(nonfiles, r.rec) ELSE nonfiles
            /\ fs' = IF variant = "win" THEN fs_after(raw_list[i], magick, ffmpeg) ELSE fs
            /\ pc' = IF r.to = "raise" THEN raise_from("classify") ELSE pc
            /\ exit' = IF r.to = "raise" THEN "error" ELSE exit
            /\ raised' = IF r.to = "raise" THEN "float" ELSE raised
    /\ i' = i + 1
    /\ UNCHANGED <<variant, image_dir, include_tour, stdout, raw_list, tmp,
                   convert_dir, files_dir, side, kml, kmz, rows>>

\* ------------------------------------------------------------- ordering
\* Python's < on tuples of two numbers
tuple_lt(a, b) == a[1] < b[1] \/ (a[1] = b[1] /\ a[2] < b[2])

\* list.sort and sorted are stable: an element settles after every element
\* that is not greater than it.  s holds [key, val] pairs.
RECURSIVE insert(_, _)
insert(sorted, x) ==
    IF sorted = <<>> THEN <<x>>
    ELSE IF tuple_lt(x.key, Head(sorted).key) THEN <<x>> \o sorted
    ELSE <<Head(sorted)>> \o insert(Tail(sorted), x)

RECURSIVE sort_pairs(_)
sort_pairs(s) ==
    IF s = <<>> THEN <<>>
    ELSE insert(sort_pairs(SubSeq(s, 1, Len(s) - 1)), s[Len(s)])

\* The key without its first component: a missing timestamp counts as the epoch.
items_key_epoch_only(x) == <<0, IF IsNone(x.dt) THEN Epoch.t ELSE Val(x.dt).t>>

\* key=lambda x: (x['dt'] is None, x['dt'] or datetime.utcfromtimestamp(0))
items_key(x) ==
    <<IF IsNone(x.dt) THEN 1 ELSE 0, IF IsNone(x.dt) THEN Epoch.t ELSE Val(x.dt).t>>

\* key=lambda x: x.get('dt') or datetime.utcfromtimestamp(0)
tour_key(x) == <<0, IF IsNone(x.dt) THEN Epoch.t ELSE Val(x.dt).t>>

\* Comparing an offset-aware datetime with a naive one raises TypeError, and a
\* sort compares two timestamps of different kinds whenever both kinds occur.
sort_raises(s) ==
    \E j, k \in DOMAIN s :
        /\ ~IsNone(s[j].dt) /\ ~IsNone(s[k].dt)
        /\ Val(s[j].dt).aware # Val(s[k].dt).aware

\* items.sort(key=...)
sort_items(s) ==
    LET pairs == [j \in DOMAIN s |-> [key |-> items_key(s[j]), val |-> s[j]]]
        out == sort_pairs(pairs)
    IN  [j \in DOMAIN out |-> out[j].val]

\* for idx, it in enumerate(items, start=1): it['kname'] = f"p{idx}"
name_items(s) == [j \in DOMAIN s |-> [s[j] EXCEPT !.kname = j]]

\* list(reversed(s))
reversed(s) == [j \in DOMAIN s |-> s[Len(s) + 1 - j]]

\* kml_items holds the same dictionaries as items, so it shows the kimg keys
\* set after it was built.
kml_items == reversed(items)

\* After the loop: create.py stops when it found nothing; both sort and name
\* the geotagged records; create.py then makes tmp, and both make tmp/files.
SortName ==
    /\ pc = "classify"
    /\ i > Len(raw_list)
    /\ IF variant = "posix" /\ items = <<>> /\ nongeo = <<>>
       THEN /\ exit' = "error"
            /\ raised' = "sys.exit"
            /\ pc' = raise_from("empty")
            /\ UNCHANGED <<items, tmp>>
       ELSE IF sort_raises(items)
       THEN /\ exit' = "error"
            /\ raised' = "sort"
            /\ pc' = raise_from("sort")
            /\ UNCHANGED <<items, tmp>>
       ELSE /\ items' = name_items(sort_items(items))
            /\ tmp' = "exists"
            /\ pc' = "stage"
            /\ UNCHANGED <<exit, raised>>
    /\ i' = 1
    /\ UNCHANGED <<variant, image_dir, include_tour, stdout, fs, raw_list, nongeo,
                   nonfiles, convert_dir, files_dir, side, kml, kmz, rows>>

\* -------------------------------------------------------------- staging
\* "files/" + os.path.basename(path)
kimg_of(path) == Path(FilesPrefix, path.stem, path.ext)

\* shutil.copy2(src, folder/basename(src)) into a folder held as name -> content
copy2(folder, src) ==
    [n \in DOMAIN folder \cup {basename(src)} |->
        IF n = basename(src) THEN fs[src] ELSE folder[n]]

\* The body of the loop that stages the geotagged records, for items[i].
\* fault names the copy that fails for a reason of the environment; a copy of
\* a missing source always fails.  create.py skips a missing source instead.
Stage ==
    /\ pc = "stage"
    /\ i <= Len(items)
    /\ \E fault \in {"none", "files", "files_geo"} :
        LET p == items[i] IN
        IF variant = "posix" /\ ~exists(p.file)
        THEN UNCHANGED <<items, files_dir, side, pc, exit, raised>>
        ELSE IF ~exists(p.file) \/ fault = "files"
        THEN /\ exit' = "error"
             /\ raised' = "copy"
             /\ pc' = raise_from("stage")
             /\ UNCHANGED <<items, files_dir, side>>
        ELSE /\ files_dir' = copy2(files_dir, p.file)
             /\ items' = [items EXCEPT ![i].kimg = Some(kimg_of(p.file))]
             /\ IF variant = "win" /\ fault = "files_geo"
                THEN /\ exit' = "error"
                     /\ raised' = "copy"
                     /\ pc' = raise_from("stage")
                     /\ UNCHANGED side
                ELSE /\ side' = IF variant = "win"
                                THEN [side EXCEPT !["files_geo"] = @ \cup {basename(p.file)}]
                                ELSE side
                     /\ UNCHANGED <<pc, exit, raised>>
    /\ i' = i + 1
    /\ UNCHANGED <<variant, image_dir, include_tour, stdout, fs, raw_list, nongeo,
                   nonfiles, tmp, convert_dir, kml, kmz, rows>>

StageDone == pc = "stage" /\ i > Len(items)

\* The base names of the entries of a list whose files exist.
copyable(list) == {basename(list[j].file) : j \in {k \in DOMAIN list : exists(list[k].file)}}

\* The copies into the bucket folders whose failures are swallowed: in
\* create-win.py files_nongeo and files_nonimg, after staging; in create.py
\* no_gps, after doc.kml is written.  Each copy may fail and is then skipped.
CopyBuckets ==
    /\ IF variant = "win" THEN StageDone ELSE pc = "buckets"
    /\ \E ng \in SUBSET copyable(nongeo), nf \in SUBSET copyable(nonfiles) :
        side' = IF variant = "win"
                THEN [side EXCEPT !["files_nongeo"] = ng, !["files_nonimg"] = nf]
                ELSE [side EXCEPT !["no_gps"] = ng]
    /\ pc' = IF variant = "win" THEN "kml" ELSE "zip"
    /\ UNCHANGED <<variant, image_dir, include_tour, stdout, fs, raw_list, i, items,
                   nongeo, nonfiles, tmp, convert_dir, files_dir, kml, kmz, rows, exit, raised>>

\* ------------------------------------------------------------------ KML
\* coords with the altitude left out when it is zero as well as when it is None
coords_of_truthy(p) ==
    IF ~IsNone(p.alt) /\ Val(p.alt) # 0 THEN <<p.lon, p.lat, Val(p.alt)>>
    ELSE <<p.lon, p.lat>>

\* coords = f"{p['lon']},{p['lat']}", and f",{p['alt']}" when alt is not None:
\* the comma-separated values, in order
coords_of(p) ==
    IF ~IsNone(p.alt) THEN <<p.lon, p.lat, Val(p.alt)>> ELSE <<p.lon, p.lat>>

\* p.get('kimg', "files/" + os.path.basename(p['srcpath'])) in create.py,
\* p['kimg'] in create-win.py, where every staged record has the key
img_src_of(p) == IF ~IsNone(p.kimg) THEN Val(p.kimg) ELSE kimg_of(p.srcpath)

placemark_of(p) == [name |-> p.kname, img_src |-> img_src_of(p), coords |-> coords_of(p)]

\* One gx:FlyTo per placemark, in the order of sorted(placemarks, key=...);
\* alt = p.get('alt') or 0
playlist_of(placemarks) ==
    LET pairs == [j \in DOMAIN placemarks |->
                     [key |-> tour_key(placemarks[j]), val |-> placemarks[j]]]
        out == sort_pairs(pairs)
    IN  [j \in DOMAIN out |->
            [of |-> out[j].val.kname, lon |-> out[j].val.lon, lat |-> out[j].val.lat,
             alt |-> IF IsNone(out[j].val.alt) THEN 0 ELSE Val(out[j].val.alt)]]

\* make_kml(placemarks, doc_name, include_tour)
make_kml(placemarks, with_tour) ==
    [body |-> [j \in DOMAIN placemarks |-> placemark_of(placemarks[j])],
     tour |-> IF with_tour THEN Some(playlist_of(placemarks)) ELSE None]

\* kml_text = make_kml(kml_items, ...), written to tmp/doc.kml
MakeKml ==
    /\ IF variant = "win" THEN pc = "kml" ELSE StageDone
    /\ kml' = Some(make_kml(kml_items, include_tour))
    /\ pc' = IF variant = "win" THEN "zip" ELSE "buckets"
    /\ UNCHANGED <<variant, image_dir, include_tour, stdout, fs, raw_list, i, items,
                   nongeo, nonfiles, tmp, convert_dir, files_dir, side, kmz, rows, exit, raised>>

\* -------------------------------------------------------------- archive
\* zipfile.ZipFile(out_kmz, "w", ...): the file is created, or the open fails.
ZipOpen ==
    /\ pc = "zip"
    /\ \E ok \in BOOLEAN :
        IF ok
        THEN /\ kmz' = [state |-> "open", doc |-> FALSE, files |-> <<>>]
             /\ pc' = "zipdoc"
             /\ UNCHANGED <<exit, raised>>
        ELSE /\ exit' = "error"
             /\ raised' = "zip open"
             /\ pc' = raise_from("zip")
             /\ UNCHANGED kmz
    /\ UNCHANGED <<variant, image_dir, include_tour, stdout, fs, raw_list, i, items,
                   nongeo, nonfiles, tmp, convert_dir, files_dir, side, kml, rows>>

\* An exception inside the with block: ZipFile.__exit__ closes the archive and
\* the exception goes on; nothing removes the file at out_kmz.
zip_abort(z) == [z EXCEPT !.state = "partial"]

\* The with block ends without exception: the archive is closed, complete.
zip_close(z) == [z EXCEPT !.state = "complete"]

\* kmz.write(kml_path, arcname="doc.kml")
ZipWriteDoc ==
    /\ pc = "zipdoc"
    /\ \E ok \in BOOLEAN :
        IF ok
        THEN /\ kmz' = [kmz EXCEPT !.doc = TRUE]
             /\ pc' = "zipfiles"
             /\ UNCHANGED <<exit, raised>>
        ELSE /\ kmz' = zip_abort(kmz)
             /\ exit' = "error"
             /\ raised' = "zip write"
             /\ pc' = raise_from("zip")
    /\ UNCHANGED <<variant, image_dir, include_tour, stdout, fs, raw_list, i, items,
                   nongeo, nonfiles, tmp, convert_dir, files_dir, side, kml, rows>>

\* kmz.write(full, arcname=os.path.relpath(full, tmp)) for one file of
\* tmp/files, in the order os.walk lists them, which is not specified.
ZipWriteFile ==
    /\ pc = "zipfiles"
    /\ \E fn \in DOMAIN files_dir \ {basename(a) : a \in DOMAIN kmz.files}, ok \in BOOLEAN :
        IF ok
        THEN /\ kmz' = [kmz EXCEPT !.files =
                          [a \in DOMAIN kmz.files \cup {kimg_of(fn)} |->
                              IF a = kimg_of(fn) THEN files_dir[fn] ELSE kmz.files[a]]]
             /\ UNCHANGED <<pc, exit, raised>>
        ELSE /\ kmz' = zip_abort(kmz)
             /\ exit' = "error"
             /\ raised' = "zip write"
             /\ pc' = raise_from("zip")
    /\ UNCHANGED <<variant, image_dir, include_tour, stdout, fs, raw_list, i, items,
                   nongeo, nonfiles, tmp, convert_dir, files_dir, side, kml, rows>>

\* The walk is over and the with block ends.
ZipClose ==
    /\ pc = "zipfiles"
    /\ DOMAIN files_dir = {basename(a) : a \in DOMAIN kmz.files}
    /\ kmz' = zip_close(kmz)
    /\ pc' = "report"
    /\ UNCHANGED <<variant, image_dir, include_tour, stdout, fs, raw_list, i, items,
                   nongeo, nonfiles, tmp, convert_dir, files_dir, side, kml, rows, exit, raised>>

\* --------------------------------------------------------------- report
Row(idx, sl, file, dt, lat, lon, status) ==
    [idx |-> idx, sl |-> sl, file |-> file, dt |-> dt, lat |-> lat, lon |-> lon,
     status |-> status]

ok_rows == [j \in DOMAIN items |->
    Row(items[j].idx, j, IF variant = "win" THEN basename(items[j].file) ELSE items[j].file,
        items[j].dt, Some(items[j].lat), Some(items[j].lon), "OK")]

no_gps_rows == [j \in DOMAIN nongeo |->
    Row(nongeo[j].idx, IF variant = "win" THEN Len(items) + j ELSE 0,
        IF variant = "win" THEN basename(nongeo[j].file) ELSE nongeo[j].file,
        nongeo[j].dt, None, None, "NO_GPS")]

non_image_rows == [j \in DOMAIN nonfiles |->
    Row(nonfiles[j].idx, Len(items) + Len(nongeo) + j, basename(nonfiles[j].file),
        None, None, None, "NON_IMAGE")]

\* rows without the loop over nonfiles
report_rows_without_non_images == ok_rows \o no_gps_rows

\* rows, as both scripts build them: the geotagged records, then the records
\* without position, then (create-win.py) the non-images
report_rows == ok_rows \o no_gps_rows \o non_image_rows

\* The report is written (create.py writes the same rows as GeoJSON features
\* too), or opening it fails.
Report ==
    /\ pc = "report"
    /\ \E ok \in BOOLEAN :
        IF ok
        THEN /\ rows' = Some(report_rows)
             /\ exit' = "ok"
             /\ UNCHANGED raised
        ELSE /\ exit' = "error"
             /\ raised' = "report"
             /\ UNCHANGED rows
    /\ pc' = "finally"
    /\ UNCHANGED <<variant, image_dir, include_tour, stdout, fs, raw_list, i, items,
                   nongeo, nonfiles, tmp, convert_dir, files_dir, side, kml, kmz>>

\* rmtree that leaves the directory in place
rmtree_skipped(d) == d

\* shutil.rmtree of a temporary directory the run made
rmtree(d) == IF d = "exists" THEN "removed" ELSE d

\* The finally block: rmtree(tmp), and in create-win.py rmtree(convert_dir).
Finally ==
    /\ pc = "finally"
    /\ tmp' = rmtree(tmp)
    /\ convert_dir' = rmtree(convert_dir)
    /\ pc' = "done"
    /\ UNCHANGED <<variant, image_dir, include_tour, stdout, fs, raw_list, i, items,
                   nongeo, nonfiles, files_dir, side, kml, kmz, rows, exit, raised>>

Next ==
    \/ Begin
    \/ Extract
    \/ Classify
    \/ SortName
    \/ Stage
    \/ CopyBuckets
    \/ MakeKml
    \/ ZipOpen
    \/ ZipWriteDoc
    \/ ZipWriteFile
    \/ ZipClose
    \/ Report
    \/ Finally

Spec == Init /\ [][Next]_vars

\* ------------------------------------------- timestamp resolution alone
\* One file with every timestamp string of the bounds, present or already
\* gone when the loop reaches it, taken through the reader and the loop.
ParseListings ==
    {<<Rec(Some(f), g, IF g = None THEN None ELSE Some(Lon), None, d)>> :
        f \in {FileA, FileH}, g \in {None, Some(Lat)},
        d \in {None} \cup {Some(x) : x \in DateStrings}}

InitParse ==
    /\ variant \in {"posix", "win"}
    /\ image_dir \in {<<"/", "photos">>, <<"photos">>}
    /\ include_tour = FALSE
    /\ stdout \in ParseListings
    /\ fs \in {Directory(stdout, image_dir), [p \in {} |-> p]}
    /\ pc = "start"
    /\ raw_list = <<>>
    /\ i = 1
    /\ items = <<>>
    /\ nongeo = <<>>
    /\ nonfiles = <<>>
    /\ tmp = "none"
    /\ convert_dir = "none"
    /\ files_dir = <<>>
    /\ side = [d \in {"files_geo", "files_nongeo", "files_nonimg", "no_gps"} |-> {}]
    /\ kml = None
    /\ kmz = NoArchive
    /\ rows = None
    /\ raised = "none"
    /\ exit = "running"

NextParse ==
    \/ Begin
    \/ Extract
    \/ Classify

SpecParse == InitParse /\ [][NextParse]_vars

\* =============================================================== claims
Succeeded == exit = "ok"

\* The records that name a file, and where record j ended up.
Named == {j \in DOMAIN raw_list : ~IsNone(src_of(raw_list[j]))}
RowsOf(j) == {k \in DOMAIN Val(rows) : Val(rows)[k].idx = j}
BucketsOf(j) ==
    {<<"OK", k>> : k \in {n \in DOMAIN items : items[n].idx = j}}
    \cup {<<"NO_GPS", k>> : k \in {n \in DOMAIN nongeo : nongeo[n].idx = j}}
    \cup {<<"NON_IMAGE", k>> : k \in {n \in DOMAIN nonfiles : nonfiles[n].idx = j}}

HasTime(x) == ~IsNone(x.dt)
SameKey(x, y) ==
    \/ ~HasTime(x) /\ ~HasTime(y)
    \/ HasTime(x) /\ HasTime(y) /\ Val(x.dt).t = Val(y.dt).t
Before(x, y) ==
    \/ HasTime(x) /\ ~HasTime(y)
    \/ HasTime(x) /\ HasTime(y) /\ Val(x.dt).t < Val(y.dt).t
    \/ SameKey(x, y) /\ x.idx < y.idx

C2_SequenceOrder ==
    \A a, b \in DOMAIN items :
        (a # b /\ items[a].kname > 0 /\ items[b].kname > 0) =>
            (items[a].kname < items[b].kname <=> Before(items[a], items[b]))

\* C2, witness: a record without timestamp that precedes a timestamped one in
\* the input and is numbered after it.
C2_Witness ==
    \E a, b \in DOMAIN items :
        /\ items[a].kname > 0 /\ items[b].kname > 0
        /\ ~HasTime(items[a]) /\ HasTime(items[b])
        /\ items[a].idx < items[b].idx
        /\ items[b].kname < items[a].kname

\* C3: a placemark's coordinates are lon,lat when the record's altitude is
\* unknown and lon,lat,alt when it is known, longitude first; an altitude of
\* zero is known.
C3_Coordinates ==
    ~IsNone(kml) =>
        /\ Len(Val(kml).body) = Len(items)
        /\ \A j \in DOMAIN Val(kml).body :
              LET c == Val(kml).body[j].coords
                  p == kml_items[j]
              IN  /\ Len(c) = IF IsNone(p.alt) THEN 2 ELSE 3
                  /\ c[1] = p.lon
                  /\ c[2] = p.lat
                  /\ ~IsNone(p.alt) => c[3] = Val(p.alt)

\* C3, witness: a placemark of a record whose altitude is zero, with three
\* values.
C3_Witness ==
    /\ ~IsNone(kml)
    /\ \E j \in DOMAIN Val(kml).body :
          /\ kml_items[j].alt = Some(0)
          /\ Len(Val(kml).body[j].coords) = 3

\* C4 as stated: after a successful run the media paths the placemarks
\* reference are exactly the entries of the archive under files/.
Referenced == {Val(kml).body[j].img_src : j \in DOMAIN Val(kml).body}
C4_ReferencesMatchEntries == Succeeded => Referenced = DOMAIN kmz.files

\* C5 as stated: a run whose only failure is one file's conversion or copy
\* ends successfully, with archive and report written.
ConversionFailed ==
    \E k \in DOMAIN nonfiles : splitext_lower(nonfiles[k].file) \in allowed_exts
C5_SingleFileFailureNeverAborts ==
    (pc = "done" /\ raised \in {"none", "copy"} /\ (raised = "copy" \/ ConversionFailed)) =>
        /\ exit = "ok"
        /\ kmz.state = "complete"
        /\ ~IsNone(rows)

\* C6: when exiftool exits non-zero the run ends in error with no archive, no
\* report, and no temporary directory left.
C6_ExtractionFailure ==
    (raised = "exiftool") =>
        /\ exit = "error"
        /\ kmz.state = "absent"
        /\ IsNone(rows)
        /\ pc = "done" => (tmp # "exists" /\ convert_dir # "exists")

\* C6, witness: create-win.py ended after a failed extraction, both of its
\* temporary directories removed.
C6_Witness ==
    /\ pc = "done"
    /\ raised = "exiftool"
    /\ tmp = "removed"
    /\ convert_dir = "removed"

\* C7 as stated: when the run has ended the archive is complete or absent.
C7_NoPartialArchive == pc = "done" => kmz.state \in {"absent", "complete"}

\* C8 as stated: with --tour the waypoints visit the placemarks in ascending
\* sequence number, p1, p2, ..., pN.
C8_TourInSequenceOrder ==
    (~IsNone(kml) /\ ~IsNone(Val(kml).tour)) =>
        /\ Len(Val(Val(kml).tour)) = Len(items)
        /\ \A j \in DOMAIN Val(Val(kml).tour) : Val(Val(kml).tour)[j].of = j

\* The records that carry a resolved timestamp: the geotagged ones, and in
\* create-win.py those without position.
Timed == {items[k] : k \in DOMAIN items}
         \cup (IF variant = "win" THEN {nongeo[k] : k \in DOMAIN nongeo} ELSE {})
StringOf(e) == raw_list[e.idx].DateTimeOriginal
Absent(o) == IsNone(o) \/ Val(o).fmt = "empty"

\* C9 as stated: a record whose file is readable always gets a timestamp.
C9_ReadableFileHasTimestamp ==
    \A e \in Timed : exists(e.file) => ~IsNone(e.dt)

\* C9 amended: the capture string, when it matches an accepted format, gives
\* the timestamp; the file's modification time is used only when the string
\* is absent or empty, and then the result is None if the file is
\* inaccessible; a string that is present and matches no format gives None
\* even when the file is readable.
C9_TimestampResolution ==
    \A e \in Timed :
        LET o == StringOf(e) IN
        IF Absent(o)
        THEN e.dt = IF exists(e.file) THEN Some(getmtime(e.file)) ELSE None
        ELSE CASE Val(o).fmt \in {"exif", "isoT", "iso"} ->
                      e.dt = Some(DT(Val(o).d * TicksPerDay + Val(o).s, FALSE))
               [] Val(o).fmt = "date" -> e.dt = Some(DT(Val(o).d * TicksPerDay, FALSE))
               [] Val(o).fmt = "isotz" ->
                      e.dt = Some(DT(Val(o).d * TicksPerDay + Val(o).s, TRUE))
               [] OTHER -> IsNone(e.dt)

\* C9, witness: a readable file whose capture string matches no format has
\* no timestamp.
C9_Witness ==
    \E e \in Timed :
        /\ ~Absent(StringOf(e))
        /\ Val(StringOf(e)).fmt = "junk"
        /\ exists(e.file)
        /\ IsNone(e.dt)

\* C10 as stated: after a successful run two different geotagged records
\* reference different paths under files/, and an entry a record references
\* holds that record's own file.
C10_DistinctEntries ==
    Succeeded =>
        \A a, b \in DOMAIN items :
            LET ref == img_src_of(items[a]) IN
            /\ a # b => ref # img_src_of(items[b])
            /\ ref \in DOMAIN kmz.files =>
                  kmz.files[ref] = Val(src_of(raw_list[items[a].idx]))

=============================================================================
